---- MODULE Spec2Model ----
(***************************************************************************)
(* Model of the fish-tracker back end: the batch pipeline of               *)
(* backend/data_processing.py (collection marking, chart aggregation, map  *)
(* wrangling) and the Flask front of backend/app.py.                       *)
(*                                                                         *)
(* Text cells are sequences of one-character strings, so that slicing,     *)
(* lower-casing and trimming are computed character by character.          *)
(* Coordinates are integers; Lat and Lng are carried in units of 1e-7      *)
(* degree before rounding and in units of 1e-6 degree after rounding, in   *)
(* exact arithmetic.  pandas is modelled as in the 1.x / 2.x line, where   *)
(* astype(str) turns a missing cell into the text "nan" and groupby drops  *)
(* rows with a missing key.                                                *)
(***************************************************************************)
EXTENDS Integers, Sequences, FiniteSets, TLC

\* ------------------------------------------------------------------ bounds
MaxFix == 2
MaxRel == 2
MaxCol == 2
MaxPts == 3

\* ------------------------------------------------------- missing values
\* a missing text cell (NaN / <NA>): a one-element tuple that is no text
NULL == <<"<NA>">>
\* a missing number (NaN); every coordinate is >= 0 and no Lat/Lng is -1
NaN == -1
\* a missing species name
NoSpecies == "NaN"

\* --------------------------------------------------------- text helpers
UpperToLower ==
  [c \in {"A","B","C","D","E","F","G","H","I","J","K","L","M","N","O","P",
          "Q","R","S","T","U","V","W","X","Y","Z"} |->
     CASE c = "A" -> "a" [] c = "B" -> "b" [] c = "C" -> "c" [] c = "D" -> "d"
       [] c = "E" -> "e" [] c = "F" -> "f" [] c = "G" -> "g" [] c = "H" -> "h"
       [] c = "I" -> "i" [] c = "J" -> "j" [] c = "K" -> "k" [] c = "L" -> "l"
       [] c = "M" -> "m" [] c = "N" -> "n" [] c = "O" -> "o" [] c = "P" -> "p"
       [] c = "Q" -> "q" [] c = "R" -> "r" [] c = "S" -> "s" [] c = "T" -> "t"
       [] c = "U" -> "u" [] c = "V" -> "v" [] c = "W" -> "w" [] c = "X" -> "x"
       [] c = "Y" -> "y" [] c = "Z" -> "z"]

Whitespace == {" ", "\t", "\n"}

\* str.lower() on one text
lower(s) ==
  [i \in 1..Len(s) |-> IF s[i] \in DOMAIN UpperToLower THEN UpperToLower[s[i]] ELSE s[i]]

RECURSIVE lstrip(_)
lstrip(s) ==
  IF s # <<>> /\ Head(s) \in Whitespace THEN lstrip(Tail(s)) ELSE s

RECURSIVE rstrip(_)
rstrip(s) ==
  IF s # <<>> /\ s[Len(s)] \in Whitespace THEN rstrip(SubSeq(s, 1, Len(s) - 1)) ELSE s

\* str.strip() on one text
strip(s) == rstrip(lstrip(s))

\* astype(str) on one cell: a missing cell becomes the text "nan"
astype_str(v) == IF v = NULL THEN <<"n", "a", "n">> ELSE v

\* Python slice s[a:b] for 0 <= a <= b
slice(s, a, b) ==
  IF a >= Len(s) THEN <<>> ELSE SubSeq(s, a + 1, IF b < Len(s) THEN b ELSE Len(s))

Min2(a, b) == IF a < b THEN a ELSE b

\* ------------------------------------------------- program constants
\* variant: the site label without its trailing space
TERMINAL_SITE_trimmed == "Final Collection Point"
TERMINAL_SITE == "Final Collection Point "
scale_lat == 15000
scale_lon == 15000
lake_lat == 483107754
lake_lon == -1202785910
slice_start == 3
slice_stop == 7

\* --------------------------------------------------------------- state
VARIABLES
  pc,               \* position in parse_and_wrangle_data
  csv_rows,         \* data/fishPos_20190604.csv
  xl_release,       \* sheet Release of data/PIT_CE.xlsx
  xl_collection,    \* sheet Collection of data/PIT_CE.xlsx
  fish_positions,   \* the fix table in memory
  release_data,     \* the release table in memory
  collection_data,  \* the collection table in memory
  AT_chart,         \* rows of AT_chart_data.json
  species_chart,    \* rows of species_chart_data.json
  map_lines,        \* lines of fish_map_data.ndjson
  written,          \* the output files written by this run
  merged_data,      \* the merged frame inside map_wrangling
  app,              \* the Flask process of app.py
  request,          \* a GET /fish-data has been sent
  response          \* what the GET was answered

vars == <<pc, csv_rows, xl_release, xl_collection, fish_positions, release_data,
          collection_data, AT_chart, species_chart, map_lines, written,
          merged_data, app, request, response>>

files == <<csv_rows, xl_release, xl_collection>>
tables == <<fish_positions, release_data, collection_data>>
outputs == <<AT_chart, species_chart, map_lines, written>>
web == <<app, request, response>>

\* ------------------------------------------------ collection marking
\* the normalised tag code of one cell
norm_tag(v) == strip(lower(astype_str(v)))

\* rows of the collection table at the terminal site
collected_rows(cd) == SelectSeq(cd, LAMBDA c : c.Site_Name = TERMINAL_SITE)

\* the set collected_fish
collected_fish(cd) ==
  { norm_tag(collected_rows(cd)[k].Tag_Code) : k \in 1..Len(collected_rows(cd)) }

\* the release table with the column Collected added
mark_collected(rd, cd) ==
  [i \in 1..Len(rd) |->
     [Tag_Code |-> rd[i].Tag_Code,
      Acoustic_Tag |-> rd[i].Acoustic_Tag,
      Species_Name |-> rd[i].Species_Name,
      Collected |-> norm_tag(rd[i].Tag_Code) \in collected_fish(cd)]]

\* ------------------------------------------------- chart aggregation
\* variant: notna() taken after astype(str), as on a table the map stage has normalised
Has_Acoustic_Tag_of_text(r) == astype_str(r.Acoustic_Tag) # NULL

\* notna() on the acoustic tag of one release row
Has_Acoustic_Tag(r) == r.Acoustic_Tag # NULL

\* groupby(['Has_Acoustic_Tag', 'Collected']).size()
AT_groupby(rel) ==
  { [Has_Acoustic_Tag |-> h, Collected |-> c,
     Count |-> Cardinality({ i \in 1..Len(rel) :
                  Has_Acoustic_Tag(rel[i]) = h /\ rel[i].Collected = c })] :
    <<h, c>> \in { <<Has_Acoustic_Tag(rel[i]), rel[i].Collected>> : i \in 1..Len(rel) } }

\* groupby(['Species Name', 'Collected']).size(): rows with a missing key
\* are left out (dropna defaults to True)
species_groupby(rel) ==
  { [Species_Name |-> s, Collected |-> c,
     Count |-> Cardinality({ i \in 1..Len(rel) :
                  rel[i].Species_Name = s /\ rel[i].Collected = c })] :
    <<s, c>> \in { <<rel[i].Species_Name, rel[i].Collected>> :
                   i \in { j \in 1..Len(rel) : rel[j].Species_Name # NoSpecies } } }

\* ------------------------------------------------------ map wrangling
\* Acoustic Tag after astype(str).str.lower().str.strip()
norm_acoustic(v) == strip(lower(astype_str(v)))

\* variant: the slice [4:8]
norm_fix_code_4to8(v) ==
  IF v = NULL THEN NULL ELSE strip(lower(slice(v, slice_start + 1, slice_stop + 1)))

\* Tag_code after .str[3:7].str.lower().str.strip(); a missing code stays missing
norm_fix_code(v) ==
  IF v = NULL THEN NULL ELSE strip(lower(slice(v, slice_start, slice_stop)))

\* the release table with the acoustic tags normalised in place
normalise_release(rd) ==
  [i \in 1..Len(rd) |-> [rd[i] EXCEPT !.Acoustic_Tag = norm_acoustic(@)]]

\* the fix table with the tag codes normalised in place
normalise_positions(fp) ==
  [i \in 1..Len(fp) |-> [fp[i] EXCEPT !.Tag_code = norm_fix_code(@)]]

\* the (fix row, release row) pairs in the order of an inner merge on the left keys
all_pairs(nf, nr) ==
  [k \in 1..(nf * nr) |-> <<((k - 1) \div nr) + 1, ((k - 1) % nr) + 1>>]

\* one row of the merged frame; rel_row is auxiliary (the release row joined)
merged_row(fp, rd, i, j) ==
  [index |-> i - 1,
   Tag_code |-> fp[i].Tag_code,
   Date_time |-> fp[i].Date_time,
   X |-> fp[i].X,
   Y |-> fp[i].Y,
   Tag_Code |-> rd[j].Tag_Code,
   Species_Name |-> rd[j].Species_Name,
   Collected |-> rd[j].Collected,
   rel_row |-> j]

\* variant: how="left", every fix without a partner kept with empty release columns
merge_left(fp, rd) ==
  LET hits == SelectSeq(all_pairs(Len(fp), Len(rd)),
                        LAMBDA p : /\ fp[p[1]].Tag_code # NULL
                                   /\ fp[p[1]].Tag_code = rd[p[2]].Acoustic_Tag)
      lone == SelectSeq([i \in 1..Len(fp) |-> i],
                        LAMBDA i : \A k \in 1..Len(hits) : hits[k][1] # i)
  IN [k \in 1..Len(hits) |-> merged_row(fp, rd, hits[k][1], hits[k][2])]
     \o [k \in 1..Len(lone) |->
          [index |-> lone[k] - 1,
           Tag_code |-> fp[lone[k]].Tag_code,
           Date_time |-> fp[lone[k]].Date_time,
           X |-> fp[lone[k]].X,
           Y |-> fp[lone[k]].Y,
           Tag_Code |-> NULL,
           Species_Name |-> NoSpecies,
           Collected |-> FALSE,
           rel_row |-> 0]]

\* fish_positions.merge(release_indexed, left_on="Tag_code", right_index=True, how="inner")
merge(fp, rd) ==
  LET hits == SelectSeq(all_pairs(Len(fp), Len(rd)),
                        LAMBDA p : /\ fp[p[1]].Tag_code # NULL
                                   /\ fp[p[1]].Tag_code = rd[p[2]].Acoustic_Tag)
  IN [k \in 1..Len(hits) |-> merged_row(fp, rd, hits[k][1], hits[k][2])]

\* Series.min() / Series.max(): missing values are skipped, NaN when none is left
col_values(md, col) == { md[k][col] : k \in 1..Len(md) } \ {NaN}
col_min(md, col) ==
  IF col_values(md, col) = {} THEN NaN
  ELSE CHOOSE v \in col_values(md, col) : \A w \in col_values(md, col) : v <= w
col_max(md, col) ==
  IF col_values(md, col) = {} THEN NaN
  ELSE CHOOSE v \in col_values(md, col) : \A w \in col_values(md, col) : v >= w

\* variant: a column of equal values is normalised to 0 instead of 0 / 0
minmax_norm_zero(v, lo, hi) ==
  IF v = NaN \/ lo = NaN \/ hi = NaN THEN <<0, 0>>
  ELSE IF hi = lo THEN <<0, 1>> ELSE <<v - lo, hi - lo>>

\* (v - min) / (max - min) as the fraction <<v - min, max - min>>; a missing
\* v and 0 / 0 give NaN, the fraction with denominator 0
minmax_norm(v, lo, hi) ==
  IF v = NaN \/ lo = NaN \/ hi = NaN \/ hi = lo THEN <<0, 0>> ELSE <<v - lo, hi - lo>>

\* variant: center + norm * scale, the box not centred
to_degrees_uncentred(center, norm, scale) ==
  IF norm[2] = 0 THEN [base |-> center, num |-> 0, den |-> 0]
  ELSE [base |-> center, num |-> 2 * norm[1] * scale, den |-> 2 * norm[2]]

\* center + (norm - 0.5) * scale in units of 1e-7 degree, as the exact value
\* base + num / den; den = 0 stands for NaN
to_degrees(center, norm, scale) ==
  IF norm[2] = 0 THEN [base |-> center, num |-> 0, den |-> 0]
  ELSE [base |-> center, num |-> (2 * norm[1] - norm[2]) * scale, den |-> 2 * norm[2]]

\* round(6): the nearest multiple of 1e-6 degree, ties to even; the result is
\* in units of 1e-6 degree
round6(d) ==
  IF d.den = 0 THEN NaN
  ELSE LET B == d.base \div 10
           n == (d.base % 10) * d.den + d.num
           m == 10 * d.den
           q == n \div m
           r == n - q * m
       IN  IF 2 * r < m THEN B + q
           ELSE IF 2 * r > m THEN B + q + 1
           ELSE IF (B + q) % 2 = 0 THEN B + q ELSE B + q + 1

\* the merged frame with the columns Lat and Lng before rounding
with_lat_lng(md) ==
  [k \in 1..Len(md) |->
     [row |-> md[k],
      Lat |-> to_degrees(lake_lat,
                minmax_norm(md[k].Y, col_min(md, "Y"), col_max(md, "Y")), scale_lat),
      Lng |-> to_degrees(lake_lon,
                minmax_norm(md[k].X, col_min(md, "X"), col_max(md, "X")), scale_lon)]]

\* the records written to fish_map_data.ndjson, one per merged row
map_records(md) ==
  [k \in 1..Len(md) |->
     [index |-> md[k].index,
      Acoustic_Tag |-> md[k].Tag_code,
      Date_Time |-> md[k].Date_time,
      Lat |-> round6(with_lat_lng(md)[k].Lat),
      Lng |-> round6(with_lat_lng(md)[k].Lng),
      Species_Name |-> md[k].Species_Name,
      Collected |-> md[k].Collected]]

\* ------------------------------------------------------------ the web app
\* the functions data_processing.py defines
data_processing_defs == {"parse_and_wrangle_data", "map_wrangling", "chart_wrangling"}
\* the name app.py imports from data_processing
app_import == "load_and_wrangle_data"

\* ------------------------------------------------------------- actions
\* read_csv / read_excel and the column selections
load_data ==
  /\ pc = "load"
  /\ fish_positions' = csv_rows
  /\ release_data' = xl_release
  /\ collection_data' = xl_collection
  /\ pc' = "mark"
  /\ UNCHANGED <<files, outputs, merged_data, web>>

\* the collection-marking step
mark_step ==
  /\ pc = "mark"
  /\ release_data' = mark_collected(release_data, collection_data)
  /\ pc' = "chart"
  /\ UNCHANGED <<files, fish_positions, collection_data, outputs, merged_data, web>>

\* chart_wrangling(release_data): works on a copy and writes the two chart files
chart_wrangling ==
  /\ pc = "chart"
  /\ AT_chart' = AT_groupby(release_data)
  /\ species_chart' = species_groupby(release_data)
  /\ written' = written \cup {"AT_chart_data.json", "species_chart_data.json"}
  /\ pc' = "map"
  /\ UNCHANGED <<files, tables, map_lines, merged_data, web>>

\* map_wrangling(release_data, fish_positions)
map_wrangling ==
  /\ pc = "map"
  /\ release_data' = normalise_release(release_data)
  /\ fish_positions' = normalise_positions(fish_positions)
  /\ merged_data' = merge(normalise_positions(fish_positions), normalise_release(release_data))
  /\ map_lines' = map_records(merged_data')
  /\ written' = written \cup {"fish_map_data.ndjson"}
  /\ pc' = "done"
  /\ UNCHANGED <<files, collection_data, AT_chart, species_chart, web>>

\* python app.py: the imports at the top of app.py
app_start ==
  /\ app = "not_started"
  /\ app' = IF app_import \in data_processing_defs THEN "serving" ELSE "ImportError"
  /\ UNCHANGED <<pc, files, tables, outputs, merged_data, request, response>>

\* a client sends GET /fish-data; get_fish_data answers it when the app serves
get_fish_data ==
  /\ app # "not_started"
  /\ ~request
  /\ request' = TRUE
  /\ response' = IF app = "serving" THEN "null" ELSE response
  /\ UNCHANGED <<pc, files, tables, outputs, merged_data, app>>

Next ==
  \/ load_data
  \/ mark_step
  \/ chart_wrangling
  \/ map_wrangling
  \/ app_start
  \/ get_fish_data

\* ------------------------------------------------------------- inputs
SeqsUpTo(S, n) == UNION { [1..k -> S] : k \in 0..n }

\* text literals
T_P1 == <<"P", "1">>
T_p1sp == <<"p", "1", " ">>
T_spP1 == <<" ", "P", "1">>
T_P2 == <<"P", "2">>
T_p2 == <<"p", "2">>
T_1234 == <<"1", "2", "3", "4">>
T_234 == <<"2", "3", "4">>
T_AB1 == <<" ", "A", "B", "1">>
T_XXX1234 == <<"X", "X", "X", "1", "2", "3", "4">>
T_abcNaN == <<"a", "b", "c", "N", "a", "N">>
T_XXXAb1 == <<"X", "X", "X", "A", "b", "1", " ">>

ReleaseTagCodes == {T_P1, T_p1sp, T_p2, NULL}
CollectionTagCodes == {T_spP1, T_P2, NULL}
SiteNames == {"Final Collection Point ", "Final Collection Point", "final collection point "}
AcousticTags == {NULL, T_1234, T_234, T_AB1}
FixCodes == {T_XXX1234, T_abcNaN, T_XXXAb1, NULL}
SpeciesNames == {"Chinook", "Coho", NoSpecies}
Coords == {NaN, 0, 1, 3}

csv_row(code, x, y, t) == [Date_time |-> t, Tag_code |-> code, X |-> x, Y |-> y]
release_row(tc, at, sp) == [Tag_Code |-> tc, Acoustic_Tag |-> at, Species_Name |-> sp]
collection_row(tc, site) == [Tag_Code |-> tc, Site_Name |-> site]

\* what does not depend on the input files
InitRun ==
  /\ pc = "load"
  /\ fish_positions = <<>>
  /\ release_data = <<>>
  /\ collection_data = <<>>
  /\ merged_data = <<>>
  /\ AT_chart = {}
  /\ species_chart = {}
  /\ map_lines = <<>>
  /\ written = {}
  /\ app = "not_started"
  /\ request = FALSE
  /\ response = "none"

\* a fixed two-row fix file, release sheet and collection sheet
DefaultCsv == << csv_row(T_XXX1234, 0, 3, 1), csv_row(T_XXXAb1, 1, 0, 2) >>
DefaultRelease == << release_row(T_P1, T_1234, "Chinook"), release_row(T_p2, NULL, "Coho") >>
DefaultCollection == << collection_row(T_spP1, TERMINAL_SITE) >>

\* collection marking: any release tag codes against any collection sheet
InitMark ==
  /\ InitRun
  /\ csv_rows = DefaultCsv
  /\ xl_release \in { [i \in 1..Len(s) |-> release_row(s[i], T_1234, "Chinook")] :
                      s \in SeqsUpTo(ReleaseTagCodes, MaxRel) }
  /\ xl_collection \in { [i \in 1..Len(s) |-> collection_row(s[i][1], s[i][2])] :
                         s \in SeqsUpTo(CollectionTagCodes \X SiteNames, MaxCol) }

\* the join: any fix codes against any acoustic tags
InitJoin ==
  /\ InitRun
  /\ csv_rows \in { [i \in 1..Len(s) |-> csv_row(s[i], i, 3 - i, i)] :
                    s \in SeqsUpTo(FixCodes, MaxFix) }
  /\ xl_release \in { [i \in 1..Len(s) |-> release_row(T_P1, s[i], "Chinook")] :
                      s \in SeqsUpTo(AcousticTags, MaxRel) }
  /\ xl_collection = DefaultCollection

\* the join on well-formed sheets: no fix code reads "nan" in the sliced
\* positions and no two release records carry the same acoustic tag
InitTagged ==
  /\ InitRun
  /\ csv_rows \in { [i \in 1..Len(s) |-> csv_row(s[i], i, 3 - i, i)] :
                    s \in SeqsUpTo(FixCodes \ {T_abcNaN}, MaxFix) }
  /\ xl_release \in { [i \in 1..Len(s) |-> release_row(T_P1, s[i], "Chinook")] :
                      s \in { t \in SeqsUpTo(AcousticTags, MaxRel) :
                               \A a, b \in 1..Len(t) : a # b => t[a] # t[b] } }
  /\ xl_collection = DefaultCollection

\* the charts: any acoustic tags, species and tag codes
InitChart ==
  /\ InitRun
  /\ csv_rows = DefaultCsv
  /\ xl_release \in { [i \in 1..Len(s) |-> release_row(s[i][1], s[i][2], s[i][3])] :
                      s \in SeqsUpTo({T_P1, T_p2} \X {NULL, T_1234, T_AB1} \X SpeciesNames, MaxRel) }
  /\ xl_collection = DefaultCollection

\* the coordinates: any X and Y on fixes that all join the one tagged fish
InitCoord ==
  /\ InitRun
  /\ csv_rows \in { [i \in 1..Len(s) |-> csv_row(T_XXX1234, s[i][1], s[i][2], i)] :
                    s \in SeqsUpTo(Coords \X Coords, MaxPts) }
  /\ xl_release = DefaultRelease
  /\ xl_collection = DefaultCollection

Spec == InitJoin /\ [][Next]_vars
SpecTagged == InitTagged /\ [][Next]_vars
SpecMark == InitMark /\ [][Next]_vars
SpecChart == InitChart /\ [][Next]_vars
SpecCoord == InitCoord /\ [][Next]_vars

\* ===================================================================
\* Properties
\* ===================================================================
RECURSIVE SumCounts(_)
SumCounts(S) ==
  IF S = {} THEN 0 ELSE LET g == CHOOSE x \in S : TRUE IN g.Count + SumCounts(S \ {g})

Abs(n) == IF n < 0 THEN -n ELSE n

\* the normal form the properties speak of: lower(trim(str(v)))
LowerTrimStr(v) == lower(strip(IF v = NULL THEN <<"n", "a", "n">> ELSE v))

\* the characters of s at the 0-indexed positions a to b
CharsAt(s, a, b) ==
  [k \in 1..(IF Len(s) > b THEN b - a + 1 ELSE IF Len(s) > a THEN Len(s) - a ELSE 0) |-> s[a + k]]

\* the release rows with an acoustic tag, as loaded
TaggedRows == { i \in 1..Len(xl_release) : xl_release[i].Acoustic_Tag # NULL }

\* the merged rows that come from fix row i (1-based) and release row j
JoinedRows(i, j) ==
  { k \in 1..Len(merged_data) : merged_data[k].index = i - 1 /\ merged_data[k].rel_row = j }

\* ---- C1: after collection marking a release record is Collected exactly
\* when its tag code, as lower(trim(str(.))), equals that of some collection
\* record whose Site Name is exactly 'Final Collection Point ' (trailing space).
C1_CollectedIff ==
  pc \in {"chart", "map", "done"} =>
    \A i \in 1..Len(release_data) :
      release_data[i].Collected <=>
        \E k \in 1..Len(xl_collection) :
          /\ xl_collection[k].Site_Name = "Final Collection Point "
          /\ LowerTrimStr(xl_release[i].Tag_Code) = LowerTrimStr(xl_collection[k].Tag_Code)

C1_Witness ==
  /\ pc = "chart"
  /\ \E i \in 1..Len(release_data), k \in 1..Len(xl_collection) :
       /\ release_data[i].Collected
       /\ xl_collection[k].Site_Name = "Final Collection Point "
       /\ xl_release[i].Tag_Code # xl_collection[k].Tag_Code
       /\ LowerTrimStr(xl_release[i].Tag_Code) = LowerTrimStr(xl_collection[k].Tag_Code)
  /\ \E i \in 1..Len(release_data), k \in 1..Len(xl_collection) :
       /\ ~release_data[i].Collected
       /\ xl_collection[k].Site_Name = "Final Collection Point"
       /\ LowerTrimStr(xl_release[i].Tag_Code) = LowerTrimStr(xl_collection[k].Tag_Code)

C3_CountsSumToReleaseCount ==
  pc \in {"map", "done"} =>
    /\ SumCounts(AT_chart) = Len(xl_release)
    /\ SumCounts(species_chart) = Len(xl_release)

\* ---- C4: a release record with a null acoustic tag contributes no record to
\* the map output, whatever the fix codes, and is counted in the chart under
\* Has_Acoustic_Tag = false.
C4_NullTagNeverJoins ==
  pc = "done" =>
    \A j \in 1..Len(xl_release) :
      xl_release[j].Acoustic_Tag = NULL =>
        /\ \A k \in 1..Len(merged_data) : merged_data[k].rel_row # j
        /\ \E g \in AT_chart :
             /\ g.Has_Acoustic_Tag = FALSE
             /\ g.Collected = release_data[j].Collected
             /\ g.Count >= 1

\* the joined set, its distinct coordinates and the box (units of 1e-7 degree)
JoinedX == { merged_data[k].X : k \in 1..Len(merged_data) } \ {NaN}
JoinedY == { merged_data[k].Y : k \in 1..Len(merged_data) } \ {NaN}
LatLo == lake_lat - scale_lat \div 2
LatHi == lake_lat + scale_lat \div 2
LngLo == lake_lon - scale_lon \div 2
LngHi == lake_lon + scale_lon \div 2
NonDegenerate == Cardinality(JoinedX) >= 2 /\ Cardinality(JoinedY) >= 2

\* ---- C5 as stated: with two distinct X and two distinct Y, every map record
\* has Lat and Lng inside the box, the minimum Y at the lower Lat bound and the
\* maximum Y at the upper Lat bound (likewise X and Lng).
C5_Original ==
  (pc = "done" /\ NonDegenerate) =>
    \A k \in 1..Len(map_lines) :
      /\ map_lines[k].Lat # NaN /\ map_lines[k].Lng # NaN
      /\ LatLo <= 10 * map_lines[k].Lat /\ 10 * map_lines[k].Lat <= LatHi
      /\ LngLo <= 10 * map_lines[k].Lng /\ 10 * map_lines[k].Lng <= LngHi
      /\ (\A y \in JoinedY : merged_data[k].Y <= y) => 10 * map_lines[k].Lat = LatLo
      /\ (\A y \in JoinedY : merged_data[k].Y >= y) => 10 * map_lines[k].Lat = LatHi
      /\ (\A x \in JoinedX : merged_data[k].X <= x) => 10 * map_lines[k].Lng = LngLo
      /\ (\A x \in JoinedX : merged_data[k].X >= x) => 10 * map_lines[k].Lng = LngHi

\* ---- C5 as amended: with two distinct X and two distinct Y, every map
\* record whose Y (X) is not missing has Lat (Lng) within half of 1e-6 degree
\* of the box, the minimum at the lower bound rounded to 6 decimals and the
\* maximum at the upper bound rounded to 6 decimals.
C5_BoxUpToRounding ==
  (pc = "done" /\ NonDegenerate) =>
    \A k \in 1..Len(map_lines) :
      /\ merged_data[k].Y # NaN =>
           /\ map_lines[k].Lat # NaN
           /\ LatLo - 5 <= 10 * map_lines[k].Lat /\ 10 * map_lines[k].Lat <= LatHi + 5
           /\ (\A y \in JoinedY : merged_data[k].Y <= y) => Abs(10 * map_lines[k].Lat - LatLo) <= 5
           /\ (\A y \in JoinedY : merged_data[k].Y >= y) => Abs(10 * map_lines[k].Lat - LatHi) <= 5
      /\ merged_data[k].X # NaN =>
           /\ map_lines[k].Lng # NaN
           /\ LngLo - 5 <= 10 * map_lines[k].Lng /\ 10 * map_lines[k].Lng <= LngHi + 5
           /\ (\A x \in JoinedX : merged_data[k].X <= x) => Abs(10 * map_lines[k].Lng - LngLo) <= 5
           /\ (\A x \in JoinedX : merged_data[k].X >= x) => Abs(10 * map_lines[k].Lng - LngHi) <= 5

C5_Witness ==
  /\ pc = "done"
  /\ NonDegenerate
  /\ \E k \in 1..Len(map_lines) : 10 * map_lines[k].Lat < LatLo
  /\ \E k \in 1..Len(map_lines) :
       /\ LatLo < 10 * map_lines[k].Lat /\ 10 * map_lines[k].Lat < LatHi - 10
       /\ LngLo < 10 * map_lines[k].Lng /\ 10 * map_lines[k].Lng < LngHi

\* ---- C6: a GET /fish-data is answered with the map records as a JSON array,
\* which the handler obtains from data_processing.
C6_GetReturnsMapRecords ==
  request => (app = "serving" /\ response = "map records")

\* the fixes whose normalised, sliced code equals the normalised acoustic tag
\* of some release record
MatchedFixes ==
  { i \in 1..Len(fish_positions) :
      \E j \in 1..Len(release_data) :
        /\ fish_positions[i].Tag_code # NULL
        /\ fish_positions[i].Tag_code = release_data[j].Acoustic_Tag }

\* ---- C7: every matched fix yields exactly one map record (one NDJSON line),
\* every other fix none, and the number of lines is the number of matched fixes.
C7_OneLinePerMatchedFix ==
  pc = "done" =>
    /\ \A i \in 1..Len(fish_positions) :
         Cardinality({ k \in 1..Len(map_lines) : map_lines[k].index = i - 1 })
           = (IF i \in MatchedFixes THEN 1 ELSE 0)
    /\ Len(map_lines) = Cardinality(MatchedFixes)

\* ---- C8 as stated: the fix code becomes the characters at the 0-indexed
\* positions 4 to 7, lower-cased and trimmed, and a fix joins a release record
\* exactly when that text equals the lower-cased, trimmed acoustic tag.
C8_Original ==
  pc = "done" =>
    \A i \in 1..Len(csv_rows) :
      csv_rows[i].Tag_code # NULL =>
        /\ fish_positions[i].Tag_code = lower(strip(CharsAt(csv_rows[i].Tag_code, 4, 7)))
        /\ \A j \in 1..Len(xl_release) :
             xl_release[j].Acoustic_Tag # NULL =>
               (JoinedRows(i, j) # {} <=>
                  lower(strip(CharsAt(csv_rows[i].Tag_code, 4, 7)))
                    = lower(strip(xl_release[j].Acoustic_Tag)))

\* ---- C8 as amended: the fix code becomes the (up to 4) characters at the
\* 0-indexed positions 3 to 6, lower-cased and trimmed, and a fix joins a
\* release record exactly when that text equals the lower-cased, trimmed text
\* of the acoustic tag, a null acoustic tag reading "nan"; a fix with a
\* missing code joins nothing.
C8_SlicePositions3to6 ==
  pc = "done" =>
    \A i \in 1..Len(csv_rows) :
      /\ csv_rows[i].Tag_code # NULL =>
           /\ fish_positions[i].Tag_code = lower(strip(CharsAt(csv_rows[i].Tag_code, 3, 6)))
           /\ \A j \in 1..Len(xl_release) :
                JoinedRows(i, j) # {} <=>
                  lower(strip(CharsAt(csv_rows[i].Tag_code, 3, 6)))
                    = LowerTrimStr(xl_release[j].Acoustic_Tag)
      /\ csv_rows[i].Tag_code = NULL =>
           \A j \in 1..Len(xl_release) : JoinedRows(i, j) = {}

C8_Witness ==
  /\ pc = "done"
  /\ \E i \in 1..Len(csv_rows), j \in 1..Len(xl_release) :
       /\ csv_rows[i].Tag_code = T_XXX1234
       /\ xl_release[j].Acoustic_Tag = T_1234
       /\ JoinedRows(i, j) # {}
  /\ \E i \in 1..Len(csv_rows), j \in 1..Len(xl_release) :
       /\ csv_rows[i].Tag_code = T_XXX1234
       /\ xl_release[j].Acoustic_Tag = T_234
       /\ JoinedRows(i, j) = {}

\* the joined set is degenerate when it is not empty and its X values (or its
\* Y values) are all equal
DegenerateX == Len(merged_data) >= 1 /\ Cardinality(JoinedX) <= 1
DegenerateY == Len(merged_data) >= 1 /\ Cardinality(JoinedY) <= 1

\* ---- C9 as stated: with all X (or all Y) of the joined set equal the run
\* aborts: map_wrangling does not complete and writes no map records.
C9_Original ==
  (DegenerateX \/ DegenerateY) =>
    (pc # "done" /\ "fish_map_data.ndjson" \notin written /\ map_lines = <<>>)

\* ---- C9 as amended: with all X (or all Y) of the joined set equal the run
\* does not abort: map_wrangling completes and writes one record per joined
\* row, every record with Lng = NaN (or Lat = NaN).
C9_DegenerateWritesNaN ==
  (pc = "done" /\ (DegenerateX \/ DegenerateY)) =>
    /\ "fish_map_data.ndjson" \in written
    /\ Len(map_lines) = Len(merged_data)
    /\ DegenerateX => \A k \in 1..Len(map_lines) : map_lines[k].Lng = NaN
    /\ DegenerateY => \A k \in 1..Len(map_lines) : map_lines[k].Lat = NaN

C9_Witness ==
  /\ pc = "done"
  /\ Len(map_lines) = 1
  /\ merged_data[1].X # NaN /\ merged_data[1].Y # NaN
  /\ map_lines[1].Lng = NaN /\ map_lines[1].Lat = NaN

\* ---- C10: the chart stage runs before the map stage and leaves the release
\* table as it was after collection marking; Has_Acoustic_Tag is true exactly
\* for the records whose acoustic tag was non-null as loaded, and the chart
\* counts are those of the table right after collection marking.
C10_ChartUnaffectedByMap ==
  /\ "fish_map_data.ndjson" \in written => "AT_chart_data.json" \in written
  /\ pc = "map" => release_data = mark_collected(xl_release, xl_collection)
  /\ pc \in {"map", "done"} =>
       /\ \A h \in BOOLEAN, c \in BOOLEAN :
            LET n == Cardinality({ i \in 1..Len(xl_release) :
                        /\ (xl_release[i].Acoustic_Tag # NULL) = h
                        /\ release_data[i].Collected = c })
            IN  /\ n > 0 => [Has_Acoustic_Tag |-> h, Collected |-> c, Count |-> n] \in AT_chart
                /\ n = 0 => \A g \in AT_chart : ~(g.Has_Acoustic_Tag = h /\ g.Collected = c)
       /\ species_chart = species_groupby(mark_collected(xl_release, xl_collection))

C10_Witness ==
  /\ pc = "done"
  /\ \E i \in 1..Len(xl_release) :
       /\ xl_release[i].Acoustic_Tag = NULL
       /\ release_data[i].Acoustic_Tag = <<"n", "a", "n">>
       /\ \E g \in AT_chart : g.Has_Acoustic_Tag = FALSE /\ g.Collected = release_data[i].Collected
  /\ \E i \in 1..Len(xl_release) : xl_release[i].Acoustic_Tag # NULL

====
